---- MODULE Spec2Model ----
(***************************************************************************)
(* A model of elasticsearch_app: the field projectors of search.py, the    *)
(* five indexers (create_*_index) writing to the search engine, and the    *)
(* route table of urls.py.                                                 *)
(*                                                                         *)
(* Python values are records [t, v]: t is the type tag ("none", "num",     *)
(* "str" for a string holding a number, "bad" for a string holding no      *)
(* number, "nan"), v the numeric value where there is one.                 *)
(***************************************************************************)
EXTENDS Integers, Sequences, FiniteSets, TLC

VARIABLES
    store,    \* the search engine: a set of stored documents
    calls,    \* per worker: the indexer call in progress
    saved,    \* saves that completed, in completion order
    ncalls,   \* indexer calls started so far
    res,      \* the resource (or entity) handed to a projector
    db,       \* rating and comment rows of the relational store
    env,      \* what bbox_to_projection returned to prepare_bbox
    path,     \* the request path handed to the resolver
    out       \* the outcome of the projector / resolver call

vars == <<store, calls, saved, ncalls, res, db, env, path, out>>

\* ------------------------------------------------------------------ bounds
MaxCoord == 1
MaxRows == 2
MaxCalls == 2
MaxPathLen == 5
FracDigits == 2

\* ------------------------------------------------------------ Python values
NoneV == [t |-> "none", v |-> 0]
NaN == [t |-> "nan", v |-> 0]
BadStr == [t |-> "bad", v |-> 0]
Num(n) == [t |-> "num", v |-> n]
NumStr(n) == [t |-> "str", v |-> n]

Idle == [pc |-> "idle"]
Unused == [pc |-> "unused"]

\* ------------------------------------------------------------ prepare_bbox
\* float(val): the number of a number or of a numeric string; TypeError on
\* None, ValueError on a string that holds no number.
PyFloat(val) ==
    CASE val.t = "num" -> [exc |-> "", val |-> Num(val.v)]
      [] val.t = "str" -> [exc |-> "", val |-> Num(val.v)]
      [] val.t = "nan" -> [exc |-> "", val |-> NaN]
      [] val.t = "none" -> [exc |-> "TypeError", val |-> NoneV]
      [] OTHER -> [exc |-> "ValueError", val |-> NoneV]

float_or_none(val) ==
    LET f == PyFloat(val)
    IN  IF f.exc = "TypeError" THEN [exc |-> "", val |-> NoneV] ELSE f

\* truth value of a float or None: None and 0.0 are false, NaN is true
Truthy(x) == (x.t = "num" /\ x.v # 0) \/ x.t = "nan"

\* x < y on floats: false whenever a NaN is involved
FloatLt(x, y) == x.t = "num" /\ y.t = "num" /\ x.v < y.v

Envelope(minx, miny, maxx, maxy) ==
    [t |-> "envelope", coordinates |-> <<<<minx, miny>>, <<maxx, maxy>>>>]

HasNone(bbox) == \E i \in 1..4 : bbox[i] = NoneV

\* lines 55-60: the service's srid for a remote layer, else the resource's
source_srid(resource) ==
    IF resource.storeType = "remoteStore" /\ resource.service_srid # "None"
    THEN resource.service_srid
    ELSE resource.srid

Marker(reprojected_bbox) == reprojected_bbox[5] = "EPSG:4326"

\* the mutant: the test of line 79 forgets the y axis
prepare_bbox_no_y_order(resource, reprojection) ==
    LET bbox == resource.bbox
        doCall == ~HasNone(bbox)
        reprojected_bbox == IF doCall THEN reprojection ELSE bbox
        c == [i \in 1..4 |-> float_or_none(reprojected_bbox[i])]
        raised == \E i \in 1..4 : c[i].exc # ""
        minx == c[1].val
        miny == c[2].val
        maxx == c[3].val
        maxy == c[4].val
    IN  IF doCall /\ ~Marker(reprojection)
        THEN [pc |-> "returned", val |-> NoneV, called |-> TRUE, warned |-> TRUE]
        ELSE IF raised
        THEN [pc |-> "raised", val |-> NoneV, called |-> doCall, warned |-> FALSE]
        ELSE IF /\ Truthy(minx) /\ Truthy(maxx) /\ Truthy(miny) /\ Truthy(maxy)
                /\ FloatLt(minx, maxx)
        THEN [pc |-> "returned", val |-> Envelope(minx, miny, maxx, maxy),
              called |-> doCall, warned |-> FALSE]
        ELSE [pc |-> "returned", val |-> NoneV, called |-> doCall, warned |-> FALSE]

\* prepare_bbox(resource), `reprojection` being what bbox_to_projection
\* returns when it is called.  called: the reprojection was called; warned:
\* logger.warn ran.
prepare_bbox(resource, reprojection) ==
    LET bbox == resource.bbox
        doCall == ~HasNone(bbox)
        reprojected_bbox == IF doCall THEN reprojection ELSE bbox
        c == [i \in 1..4 |-> float_or_none(reprojected_bbox[i])]
        raised == \E i \in 1..4 : c[i].exc # ""
        minx == c[1].val
        miny == c[2].val
        maxx == c[3].val
        maxy == c[4].val
    IN  IF doCall /\ ~Marker(reprojection)
        THEN [pc |-> "returned", val |-> NoneV, called |-> TRUE, warned |-> TRUE]
        ELSE IF raised
        THEN [pc |-> "raised", val |-> NoneV, called |-> doCall, warned |-> FALSE]
        ELSE IF /\ Truthy(minx) /\ Truthy(maxx) /\ Truthy(miny) /\ Truthy(maxy)
                /\ FloatLt(minx, maxx) /\ FloatLt(miny, maxy)
        THEN [pc |-> "returned", val |-> Envelope(minx, miny, maxx, maxy),
              called |-> doCall, warned |-> FALSE]
        ELSE [pc |-> "returned", val |-> NoneV, called |-> doCall, warned |-> FALSE]

\* the raw coordinates of a resource: decimal columns, each set or NULL
RawVals == {NoneV, Num(0), Num(1)}
StoreTypes == {"absent", "dataStore", "remoteStore"}
Srids == {"EPSG:4326", "EPSG:3857"}

BboxResources ==
    {r \in [bbox : [1..4 -> RawVals], storeType : StoreTypes,
            service_srid : {"None", "EPSG:3857"}, srid : Srids] :
        r.storeType # "remoteStore" => r.service_srid = "None"}

\* what the reprojection may hand back in its first four slots
ReprojVals ==
    {NoneV, NaN, BadStr} \cup {NumStr(n) : n \in (0 - MaxCoord)..MaxCoord}

NotCalled == [called |-> FALSE, ret |-> <<>>]

\* the results of bbox_to_projection(bbox, source_srid, 4326): four values
\* and the target srid, or the box with an error message in the last slot.
\* It is given numbers only: a box with a NULL never reaches it (line 64).
Reprojections(bbox) ==
    IF HasNone(bbox)
    THEN {<<bbox[1], bbox[2], bbox[3], bbox[4], "error">>}
    ELSE {<<c[1], c[2], c[3], c[4], "EPSG:4326">> : c \in [1..4 -> ReprojVals]}
            \cup {<<bbox[1], bbox[2], bbox[3], bbox[4], "error">>}

InitBbox ==
    /\ res \in BboxResources
    /\ env = NotCalled
    /\ out = Idle
    /\ store = {} /\ calls = Unused /\ saved = <<>> /\ ncalls = 0
    /\ db = Unused /\ path = <<>>

PrepareBbox ==
    /\ out.pc = "idle"
    /\ \E r \in Reprojections(res.bbox) :
          LET o == prepare_bbox(res, r)
          IN  /\ out' = o
              /\ env' = IF o.called
                        THEN [called |-> TRUE, ret |-> r,
                              source_srid |-> source_srid(res)]
                        ELSE NotCalled
    /\ UNCHANGED <<store, calls, saved, ncalls, res, db, path>>

NextBbox == PrepareBbox

SpecBbox == InitBbox /\ [][NextBbox]_vars

\* the four slots of a successful reprojection, as numbers
Coord(i) == Num(env.ret[i].v)

ValidReprojection ==
    /\ env.called /\ Marker(env.ret)
    /\ \A i \in 1..4 : env.ret[i].t = "str"
    /\ env.ret[1].v < env.ret[3].v
    /\ env.ret[2].v < env.ret[4].v

IsEnvelope(val) ==
    /\ val.t = "envelope"
    /\ \A i \in 1..2 : \A j \in 1..2 : val.coordinates[i][j].t = "num"
    /\ val.coordinates[1][1].v < val.coordinates[2][1].v
    /\ val.coordinates[1][2].v < val.coordinates[2][2].v

\* C3: prepare_bbox returns None or a complete envelope of four numbers with
\* minx < maxx and miny < maxy; with a coordinate missing it returns None
\* and never calls the reprojection.
C3_AbsentOrCompleteEnvelope ==
    /\ out.pc = "returned" => (out.val = NoneV \/ IsEnvelope(out.val))
    /\ (out.pc # "idle" /\ HasNone(res.bbox)) =>
          (out.pc = "returned" /\ out.val = NoneV /\ ~out.called /\ ~env.called)

\* C3 witness: a partial box (some coordinates set, one missing) was projected
C3_PartialBoxProjected ==
    /\ out.pc = "returned"
    /\ HasNone(res.bbox)
    /\ \E i \in 1..4 : res.bbox[i] # NoneV

\* C4: a full box whose reprojection succeeds with four numbers, minx < maxx
\* and miny < maxy, gives the envelope of the reprojected values.
C4_ValidBoxGivesEnvelope ==
    (out.pc # "idle" /\ ValidReprojection) =>
        /\ out.pc = "returned"
        /\ out.val = Envelope(Coord(1), Coord(2), Coord(3), Coord(4))

\* C8: prepare_bbox never raises; a failed reprojection is logged and gives
\* None, and a value that does not parse as a float gives None.
C8_BboxNeverRaises ==
    out.pc # "idle" =>
        /\ out.pc = "returned"
        /\ (env.called /\ ~Marker(env.ret)) => (out.warned /\ out.val = NoneV)
        /\ (env.called /\ \E i \in 1..4 : env.ret[i].t \in {"bad", "none"}) =>
              out.val = NoneV

\* ------------------------------------------- has_time and category fields
PyTrue == [t |-> "bool", v |-> 1]
PyFalse == [t |-> "bool", v |-> 0]
Text(str) == [t |-> "text", s |-> str]

NoCategory == [t |-> "none"]
Categories ==
    {[t |-> "category", identifier |-> "biota", gn_description |-> "Biota"],
     [t |-> "category", identifier |-> "society", gn_description |-> "Society"]}

\* resource.service: no service, a lookup that raises ObjectDoesNotExist, or
\* a service with or without a category
NoService == [t |-> "none"]
ServiceDoesNotExist == [t |-> "ObjectDoesNotExist"]
Services == {[t |-> "service", category |-> c] : c \in Categories \cup {NoCategory}}

Dates == {NoneV, Num(1)}

MetaResources ==
    {r \in [hasTemporal : BOOLEAN,
            temporal_extent_start : Dates, temporal_extent_end : Dates,
            category : Categories \cup {NoCategory},
            service : Services \cup {NoService, ServiceDoesNotExist}] :
        ~r.hasTemporal =>
            (r.temporal_extent_start = NoneV /\ r.temporal_extent_end = NoneV)}

Returned(fn, val) == [pc |-> "returned", fn |-> fn, val |-> val]
Raised(fn, exc) == [pc |-> "raised", fn |-> fn, val |-> Text(exc)]

\* lines 203-211: True when a bound is set, False on AttributeError, and
\* the function's end (None) when both bounds are None
prepare_has_time(resource) ==
    IF ~resource.hasTemporal
    THEN Returned("prepare_has_time", PyFalse)
    ELSE IF \/ resource.temporal_extent_start # NoneV
            \/ resource.temporal_extent_end # NoneV
    THEN Returned("prepare_has_time", PyTrue)
    ELSE Returned("prepare_has_time", NoneV)

\* the mutant: the service's category is never consulted
prepare_category_own_only(resource) ==
    IF resource.category # NoCategory
    THEN Returned("prepare_category", Text(resource.category.identifier))
    ELSE Returned("prepare_category", NoneV)

\* lines 126-135
prepare_category(resource) ==
    IF resource.category # NoCategory
    THEN Returned("prepare_category", Text(resource.category.identifier))
    ELSE IF resource.service = ServiceDoesNotExist
    THEN Returned("prepare_category", NoneV)
    ELSE IF /\ resource.service # NoService
            /\ resource.service.category # NoCategory
    THEN Returned("prepare_category", Text(resource.service.category.identifier))
    ELSE Returned("prepare_category", NoneV)

\* lines 138-142
prepare_category_gn_description(resource) ==
    IF resource.category # NoCategory
    THEN Returned("prepare_category_gn_description",
                  Text(resource.category.gn_description))
    ELSE Returned("prepare_category_gn_description", NoneV)

InitMeta ==
    /\ res \in MetaResources
    /\ out = Idle
    /\ env = NotCalled
    /\ store = {} /\ calls = Unused /\ saved = <<>> /\ ncalls = 0
    /\ db = Unused /\ path = <<>>

PrepareHasTime ==
    /\ out.pc = "idle"
    /\ out' = prepare_has_time(res)
    /\ UNCHANGED <<store, calls, saved, ncalls, res, db, env, path>>

PrepareCategory ==
    /\ out.pc = "idle"
    /\ out' = prepare_category(res)
    /\ UNCHANGED <<store, calls, saved, ncalls, res, db, env, path>>

PrepareCategoryGnDescription ==
    /\ out.pc = "idle"
    /\ out' = prepare_category_gn_description(res)
    /\ UNCHANGED <<store, calls, saved, ncalls, res, db, env, path>>

NextMeta == PrepareHasTime \/ PrepareCategory \/ PrepareCategoryGnDescription

SpecMeta == InitMeta /\ [][NextMeta]_vars

Ran(fn) == out.pc # "idle" /\ out.fn = fn

\* C9: prepare_has_time returns True when a temporal bound is set and False
\* otherwise, the same for two unset bounds as for missing attributes, and
\* never raises.
C9_HasTimeIsBoolean ==
    Ran("prepare_has_time") =>
        /\ out.pc = "returned"
        /\ out.val = IF /\ res.hasTemporal
                        /\ \/ res.temporal_extent_start # NoneV
                           \/ res.temporal_extent_end # NoneV
                     THEN PyTrue ELSE PyFalse

\* C10: prepare_category returns the resource's own category identifier,
\* else the linked service's category identifier, else None, and never
\* raises; prepare_category_gn_description returns the own category's
\* description or None, never the service's.
C10_CategoryFallback ==
    /\ Ran("prepare_category") =>
          /\ out.pc = "returned"
          /\ res.category # NoCategory =>
                out.val = Text(res.category.identifier)
          /\ (res.category = NoCategory /\ res.service \in Services
                 /\ res.service.category # NoCategory) =>
                out.val = Text(res.service.category.identifier)
          /\ (res.category = NoCategory
                 /\ (res.service \notin Services
                       \/ res.service.category = NoCategory)) =>
                out.val = NoneV
    /\ Ran("prepare_category_gn_description") =>
          /\ out.pc = "returned"
          /\ out.val = IF res.category = NoCategory THEN NoneV
                       ELSE Text(res.category.gn_description)

\* C10 witness: the fallback to the service's category was taken
C10_FallbackTaken ==
    /\ Ran("prepare_category")
    /\ res.category = NoCategory
    /\ res.service \in Services
    /\ out.val # NoneV

\* ------------------------------------------------- ratings and comments
ContentTypes == {"layer", "map"}
Ids == {1, 2}
RatingValues == {0, 3, 4}

RatingRows == [content_type : ContentTypes, object_id : Ids, rating : RatingValues]
CommentRows == [content_type : ContentTypes, object_id : Ids, rating : {0}]

RowKey(r) ==
    (IF r.content_type = "layer" THEN 0 ELSE 100) + 10 * r.object_id + r.rating

\* tables of at most MaxRows rows; the order of rows in a table is immaterial
Tables(rows) ==
    UNION {{t \in [1..n -> rows] :
                \A i \in 1..n : \A j \in i..n : RowKey(t[i]) <= RowKey(t[j])} :
           n \in 0..MaxRows}

RECURSIVE Pow10(_)
Pow10(k) == IF k = 0 THEN 1 ELSE 10 * Pow10(k - 1)

\* numbers with a fraction are fixed-point, in units of 10^-FracDigits
Scale == Pow10(FracDigits)

DigitChars == <<"0", "1", "2", "3", "4", "5", "6", "7", "8", "9">>
DigitVal(c) == CHOOSE d \in 0..9 : DigitChars[d + 1] = c

RECURSIVE IntStr(_)
IntStr(n) ==
    IF n < 10 THEN <<DigitChars[n + 1]>>
    ELSE Append(IntStr(n \div 10), DigitChars[(n % 10) + 1])

RECURSIVE ZeroPad(_, _)
ZeroPad(str, w) == IF Len(str) >= w THEN str ELSE ZeroPad(<<"0">> \o str, w)

RECURSIVE ParseInt(_)
ParseInt(str) ==
    IF str = <<>> THEN 0
    ELSE 10 * ParseInt(SubSeq(str, 1, Len(str) - 1)) + DigitVal(str[Len(str)])

\* str(x) of a fixed-point number: "3.50"
PyStr(x) == IntStr(x \div Scale) \o <<".">> \o ZeroPad(IntStr(x % Scale), FracDigits)

\* float(str) of a decimal string, with or without a fraction
PyFloatOfStr(str) ==
    LET dots == {i \in 1..Len(str) : str[i] = "."}
    IN  IF dots = {} THEN ParseInt(str) * Scale
        ELSE LET d == CHOOSE i \in dots : TRUE
                 frac == SubSeq(str, d + 1, Len(str))
             IN  ParseInt(SubSeq(str, 1, d - 1)) * Scale
                     + ParseInt(frac) * Pow10(FracDigits - Len(frac))

RECURSIVE SumRatings(_)
SumRatings(rows) ==
    IF rows = <<>> THEN 0 ELSE rows[1].rating + SumRatings(Tail(rows))

\* the mutant: rows are matched on object_id alone
FilterRows_any_type(table, ct, pk) ==
    SelectSeq(table, LAMBDA r : r.object_id = pk)

\* objects.filter(object_id=resource.pk, content_type=ct)
FilterRows(table, ct, pk) ==
    SelectSeq(table, LAMBDA r : r.object_id = pk /\ r.content_type = ct)

\* aggregate(r=Avg("rating"))["r"]: None over no rows
AvgRating(rows) ==
    IF rows = <<>> THEN NoneV ELSE Num((SumRatings(rows) * Scale) \div Len(rows))

\* lines 88-97: float(str(rating or "0"))
prepare_rating(resource, table) ==
    LET rating == AvgRating(FilterRows(table, resource.content_type, resource.pk))
        shown == IF Truthy(rating) THEN PyStr(rating.v) ELSE <<"0">>
    IN  Returned("prepare_rating", Num(PyFloatOfStr(shown)))

\* lines 100-108
prepare_num_ratings(resource, table) ==
    Returned("prepare_num_ratings",
             Num(Len(FilterRows(table, resource.content_type, resource.pk))))

\* lines 111-119
prepare_num_comments(resource, table) ==
    Returned("prepare_num_comments",
             Num(Len(FilterRows(table, resource.content_type, resource.pk))))

InitRating ==
    /\ res \in [content_type : ContentTypes, pk : Ids]
    /\ db \in [ratings : Tables(RatingRows), comments : Tables(CommentRows)]
    /\ out = Idle
    /\ env = NotCalled
    /\ store = {} /\ calls = Unused /\ saved = <<>> /\ ncalls = 0
    /\ path = <<>>

PrepareRating ==
    /\ out.pc = "idle"
    /\ out' = prepare_rating(res, db.ratings)
    /\ UNCHANGED <<store, calls, saved, ncalls, res, db, env, path>>

PrepareNumRatings ==
    /\ out.pc = "idle"
    /\ out' = prepare_num_ratings(res, db.ratings)
    /\ UNCHANGED <<store, calls, saved, ncalls, res, db, env, path>>

PrepareNumComments ==
    /\ out.pc = "idle"
    /\ out' = prepare_num_comments(res, db.comments)
    /\ UNCHANGED <<store, calls, saved, ncalls, res, db, env, path>>

NextRating == PrepareRating \/ PrepareNumRatings \/ PrepareNumComments

SpecRating == InitRating /\ [][NextRating]_vars

\* the rows of a table that belong to the entity, by position
OwnRows(table) ==
    {i \in 1..Len(table) :
        table[i].content_type = res.content_type /\ table[i].object_id = res.pk}

RECURSIVE SumOver(_, _)
SumOver(table, idx) ==
    IF idx = {} THEN 0
    ELSE LET i == CHOOSE k \in idx : TRUE
         IN  table[i].rating + SumOver(table, idx \ {i})

\* C6: with no rating and no comment rows the counts are 0 and the rating is
\* 0.0, never None; with rows the rating is their average and the counts
\* are the numbers of rows of the entity's (content type, id).
C6_RatingAndCounts ==
    /\ Ran("prepare_rating") =>
          LET own == OwnRows(db.ratings)
              n == Cardinality(own)
              total == SumOver(db.ratings, own)
          IN  /\ out.pc = "returned" /\ out.val.t = "num"
              /\ n = 0 => out.val.v = 0
              /\ n > 0 => /\ n * out.val.v <= Scale * total
                          /\ Scale * total < n * (out.val.v + 1)
    /\ Ran("prepare_num_ratings") =>
          out = Returned("prepare_num_ratings", Num(Cardinality(OwnRows(db.ratings))))
    /\ Ran("prepare_num_comments") =>
          out = Returned("prepare_num_comments", Num(Cardinality(OwnRows(db.comments))))

\* C6 witness: an entity without rows of its own, in a store that holds
\* rows of another entity with the same id, was given rating 0.0
C6_UnratedAmongOthers ==
    /\ Ran("prepare_rating")
    /\ OwnRows(db.ratings) = {}
    /\ \E i \in 1..Len(db.ratings) :
          db.ratings[i].object_id = res.pk /\ db.ratings[i].rating > 0
    /\ out.val = Num(0)

\* ------------------------------------------------------------ urlpatterns
\* request paths are built from these pieces and matched character by
\* character
Pieces ==
    {<<"a", "p", "i", "/">>,
     <<"a", "u", "t", "o", "c", "o", "m", "p", "l", "e", "t", "e">>,
     <<"/">>,
     <<"g", "r", "o", "u", "p", "s">>,
     <<"p", "e", "o", "p", "l", "e">>,
     <<"/", "s", "e", "a", "r", "c", "h">>,
     <<"x">>}

Paths == UNION {[1..n -> Pieces] : n \in 0..MaxPathLen}

RECURSIVE Flatten(_)
Flatten(pieces) ==
    IF pieces = <<>> THEN <<>> ELSE pieces[1] \o Flatten(Tail(pieces))

StartsWith(str, prefix) ==
    Len(str) >= Len(prefix) /\ SubSeq(str, 1, Len(prefix)) = prefix

\* the end of the run of characters other than "/" that starts at position i
RECURSIVE RunEnd(_, _)
RunEnd(str, i) ==
    IF i > Len(str) \/ str[i] = "/" THEN i - 1 ELSE RunEnd(str, i + 1)

ApiPrefix == <<"a", "p", "i", "/">>
SearchSuffix == <<"/", "s", "e", "a", "r", "c", "h", "/">>

\* r'^api/(?P<resourcetype>[^/]+)/search/$': the captured group, or <<>>
\* when the path does not match
MatchApi(str) ==
    IF ~StartsWith(str, ApiPrefix) THEN <<>>
    ELSE LET first == Len(ApiPrefix) + 1
             last == RunEnd(str, first)
         IN  IF last >= first /\ SubSeq(str, last + 1, Len(str)) = SearchSuffix
             THEN SubSeq(str, first, last)
             ELSE <<>>

\* a pattern matches: the anchored regex finds a match at the path's start
Matches(pattern, str) ==
    IF pattern.kind = "api" THEN MatchApi(str) # <<>>
    ELSE StartsWith(str, pattern.regex)

\* the mutant: the general autocomplete pattern is declared first
urlpatterns_general_first ==
    <<[kind |-> "api", regex |-> ApiPrefix, view |-> "elastic_search"],
      [kind |-> "prefix", regex |-> <<"a", "u", "t", "o", "c", "o", "m", "p", "l", "e", "t", "e">>,
       view |-> "suggest_search"],
      [kind |-> "prefix", regex |-> <<"a", "u", "t", "o", "c", "o", "m", "p", "l", "e", "t", "e", "/", "g", "r", "o", "u", "p", "s">>,
       view |-> "suggest_search_groups"],
      [kind |-> "prefix", regex |-> <<"a", "u", "t", "o", "c", "o", "m", "p", "l", "e", "t", "e", "/", "p", "e", "o", "p", "l", "e">>,
       view |-> "suggest_search_people"]>>

\* urls.py lines 4-18, in declaration order
urlpatterns ==
    <<[kind |-> "api", regex |-> ApiPrefix, view |-> "elastic_search"],
      [kind |-> "prefix", regex |-> <<"a", "u", "t", "o", "c", "o", "m", "p", "l", "e", "t", "e", "/", "g", "r", "o", "u", "p", "s">>,
       view |-> "suggest_search_groups"],
      [kind |-> "prefix", regex |-> <<"a", "u", "t", "o", "c", "o", "m", "p", "l", "e", "t", "e", "/", "p", "e", "o", "p", "l", "e">>,
       view |-> "suggest_search_people"],
      [kind |-> "prefix", regex |-> <<"a", "u", "t", "o", "c", "o", "m", "p", "l", "e", "t", "e">>,
       view |-> "suggest_search"]>>

\* the resolver: the first pattern, in order, that matches
resolve(str) ==
    LET hits == {i \in 1..Len(urlpatterns) : Matches(urlpatterns[i], str)}
    IN  IF hits = {}
        THEN [pc |-> "raised", fn |-> "resolve", view |-> "Resolver404",
              resourcetype |-> <<>>]
        ELSE LET i == CHOOSE k \in hits : \A j \in hits : k <= j
             IN  [pc |-> "returned", fn |-> "resolve", view |-> urlpatterns[i].view,
                  resourcetype |-> IF urlpatterns[i].kind = "api"
                                   THEN MatchApi(str) ELSE <<>>]

InitRoute ==
    /\ path \in Paths
    /\ out = Idle
    /\ env = NotCalled
    /\ store = {} /\ calls = Unused /\ saved = <<>> /\ ncalls = 0
    /\ db = Unused /\ res = Unused

Resolve ==
    /\ out.pc = "idle"
    /\ out' = resolve(Flatten(path))
    /\ UNCHANGED <<store, calls, saved, ncalls, res, db, env, path>>

NextRoute == Resolve

SpecRoute == InitRoute /\ [][NextRoute]_vars

GroupsPath == <<"a", "u", "t", "o", "c", "o", "m", "p", "l", "e", "t", "e", "/", "g", "r", "o", "u", "p", "s">>
PeoplePath == <<"a", "u", "t", "o", "c", "o", "m", "p", "l", "e", "t", "e", "/", "p", "e", "o", "p", "l", "e">>
AutocompletePath == <<"a", "u", "t", "o", "c", "o", "m", "p", "l", "e", "t", "e">>

\* C7: resolution is first-match in declaration order: autocomplete/groups...
\* goes to suggest_search_groups, autocomplete/people... to
\* suggest_search_people, any other autocomplete... to suggest_search,
\* api/<resourcetype>/search/ to elastic_search with that resourcetype; the
\* general handler never gets a people or groups path.
C7_FirstMatchDispatch ==
    Ran("resolve") =>
        LET str == Flatten(path)
            rt == SubSeq(str, Len(ApiPrefix) + 1, Len(str) - Len(SearchSuffix))
        IN  /\ StartsWith(str, GroupsPath) => out.view = "suggest_search_groups"
            /\ StartsWith(str, PeoplePath) => out.view = "suggest_search_people"
            /\ (/\ StartsWith(str, AutocompletePath)
                /\ ~StartsWith(str, GroupsPath)
                /\ ~StartsWith(str, PeoplePath)) => out.view = "suggest_search"
            /\ (/\ rt # <<>>
                /\ \A i \in 1..Len(rt) : rt[i] # "/"
                /\ str = ApiPrefix \o rt \o SearchSuffix) =>
                  (out.view = "elastic_search" /\ out.resourcetype = rt)
            /\ out.view = "suggest_search" =>
                  (~StartsWith(str, GroupsPath) /\ ~StartsWith(str, PeoplePath))

\* C7 witness: a people path, which the general pattern matches too, was
\* dispatched to suggest_search_people
C7_PeoplePathDispatched ==
    /\ Ran("resolve")
    /\ StartsWith(Flatten(path), PeoplePath)
    /\ Len(Flatten(path)) > Len(PeoplePath)
    /\ out.view = "suggest_search_people"

\* ---------------------------------------------------------------- indexers
Kinds == {"layer", "map", "document", "profile", "group"}
Workers == {1, 2}

\* class Meta: index = ... of the five DocTypes
IndexName(kind) ==
    CASE kind = "layer" -> "layer-index"
      [] kind = "map" -> "map-index"
      [] kind = "document" -> "document-index"
      [] kind = "profile" -> "profile-index"
      [] OTHER -> "group-index"

LowerChar(c) ==
    CASE c = "A" -> "a"
      [] c = "B" -> "b"
      [] OTHER -> c

\* str.lower()
Lower(str) == [i \in 1..Len(str) |-> LowerChar(str[i])]

\* lines 178-179
prepare_title(resource) == resource.title

\* the mutant: the title is kept as it is
prepare_title_sortable_as_is(resource) == prepare_title(resource)

\* lines 122-123
prepare_title_sortable(resource) == Lower(prepare_title(resource))

NoOwner == [t |-> "none"]

\* lines 150-154
prepare_owner(resource) ==
    IF resource.owner # NoOwner
    THEN [exc |-> "", val |-> Text(resource.owner.username)]
    ELSE [exc |-> "", val |-> NoneV]

\* the mutant: a missing owner is tolerated, as prepare_owner does
prepare_owner_first_guarded(resource) ==
    IF resource.owner = NoOwner THEN [exc |-> "", val |-> NoneV]
    ELSE IF resource.owner.first_name # ""
    THEN [exc |-> "", val |-> Text(resource.owner.first_name)]
    ELSE [exc |-> "", val |-> NoneV]

\* lines 157-161: resource.owner.first_name of no owner is an AttributeError
prepare_owner_first(resource) ==
    IF resource.owner = NoOwner THEN [exc |-> "AttributeError", val |-> NoneV]
    ELSE IF resource.owner.first_name # ""
    THEN [exc |-> "", val |-> Text(resource.owner.first_name)]
    ELSE [exc |-> "", val |-> NoneV]

\* lines 164-168
prepare_owner_last(resource) ==
    IF resource.owner = NoOwner THEN [exc |-> "AttributeError", val |-> NoneV]
    ELSE IF resource.owner.last_name # ""
    THEN [exc |-> "", val |-> Text(resource.owner.last_name)]
    ELSE [exc |-> "", val |-> NoneV]

Built(kind, id, fields) ==
    [exc |-> "", obj |-> [meta |-> [id |-> id, index |-> IndexName(kind)],
                          fields |-> fields]]
NotBuilt(exc) == [exc |-> exc, obj |-> NoneV]

\* the mutant: the document is given no identifier of its own
LayerIndex_fixed_id(layer) ==
    Built("layer", 0,
          [id |-> layer.id, title |-> prepare_title(layer), type |-> "layer",
           title_sortable |-> prepare_title_sortable(layer),
           owner__username |-> prepare_owner(layer).val,
           owner__first_name |-> prepare_owner_first(layer).val,
           owner__last_name |-> prepare_owner_last(layer).val])

\* lines 349-392: the fields of the layer document the properties speak of
LayerIndex(layer) ==
    IF prepare_owner(layer).exc # "" THEN NotBuilt(prepare_owner(layer).exc)
    ELSE IF prepare_owner_first(layer).exc # "" THEN NotBuilt(prepare_owner_first(layer).exc)
    ELSE IF prepare_owner_last(layer).exc # "" THEN NotBuilt(prepare_owner_last(layer).exc)
    ELSE Built("layer", layer.id,
               [id |-> layer.id, title |-> prepare_title(layer), type |-> "layer",
                title_sortable |-> prepare_title_sortable(layer),
                owner__username |-> prepare_owner(layer).val,
                owner__first_name |-> prepare_owner_first(layer).val,
                owner__last_name |-> prepare_owner_last(layer).val])

\* lines 477-506
MapIndex(map) ==
    IF prepare_owner(map).exc # "" THEN NotBuilt(prepare_owner(map).exc)
    ELSE Built("map", map.id,
               [id |-> map.id, title |-> map.title, type |-> "map",
                title_sortable |-> prepare_title_sortable(map),
                owner__username |-> prepare_owner(map).val])

\* lines 591-620
DocumentIndex(document) ==
    IF prepare_owner(document).exc # "" THEN NotBuilt(prepare_owner(document).exc)
    ELSE Built("document", document.id,
               [id |-> document.id, title |-> document.title, type |-> "document",
                title_sortable |-> Lower(document.title),
                owner__username |-> prepare_owner(document).val])

\* lines 681-699
ProfileIndex(profile) ==
    Built("profile", profile.id,
          [id |-> profile.id, username |-> profile.username, type |-> "user"])

\* lines 730-742
GroupIndex(group) ==
    Built("group", group.id,
          [id |-> group.id, title |-> group.title, type |-> "group",
           title_sortable |-> Lower(group.title)])

BuildIndex(kind, entity) ==
    CASE kind = "layer" -> LayerIndex(entity)
      [] kind = "map" -> MapIndex(entity)
      [] kind = "document" -> DocumentIndex(entity)
      [] kind = "profile" -> ProfileIndex(entity)
      [] OTHER -> GroupIndex(entity)

\* obj.save() stands in a try ... except TransportError in three of the
\* five indexers (lines 393-400, 507-514, 621-628), bare in two (700, 743)
CatchesTransportError(kind) == kind \in {"layer", "map", "document"}

\* obj.to_dict(include_meta=True)
to_dict(obj) ==
    [_index |-> obj.meta.index, _id |-> obj.meta.id, _source |-> obj.fields]

\* the engine's index operation: the document replaces the one stored under
\* the same index and identifier
Upsert(docs, doc) ==
    {d \in docs : ~(d._index = doc._index /\ d._id = doc._id)} \cup {doc}

Titles == {<<"A", "b">>, <<"a", "B">>}
Owners ==
    {NoOwner,
     [username |-> "admin", first_name |-> "", last_name |-> "Roe"]}

\* the entities of a kind, the resources owned by one of `owners`
Entities(kind, owners) ==
    IF kind = "profile"
    THEN [id : Ids, username : {"admin"}]
    ELSE IF kind = "group"
    THEN [id : Ids, title : Titles]
    ELSE [id : Ids, title : Titles, owner : owners]

IdleCall == [pc |-> "idle", n |-> 0]

InitIndex ==
    /\ store = {}
    /\ calls = [w \in Workers |-> IdleCall]
    /\ saved = <<>>
    /\ ncalls = 0
    /\ res = Unused /\ db = Unused /\ env = NotCalled /\ path = <<>>
    /\ out = Unused

\* a caller enters create_<kind>_index(entity): the document is built
Begin(w, owners) ==
    /\ calls[w].pc \in {"idle", "returned", "raised"}
    /\ ncalls < MaxCalls
    /\ ncalls' = ncalls + 1
    /\ \E kind \in Kinds : \E entity \in Entities(kind, owners) :
          LET b == BuildIndex(kind, entity)
          IN  calls' = [calls EXCEPT ![w] =
                  [pc |-> IF b.exc = "" THEN "built" ELSE "raised",
                   n |-> ncalls + 1, kind |-> kind, entity |-> entity,
                   obj |-> b.obj, saves |-> 0, failed |-> FALSE,
                   logs |-> <<>>, exc |-> b.exc, ret |-> NoneV]]
    /\ UNCHANGED <<store, saved, res, db, env, path, out>>

\* the mutant: a save that fails is attempted again
Save_retry(w) ==
    /\ calls[w].pc = "built"
    /\ LET c == calls[w]
           doc == to_dict(c.obj)
       IN  \E ok \in BOOLEAN :
             IF ok
             THEN /\ store' = Upsert(store, doc)
                  /\ saved' = Append(saved, [n |-> c.n, kind |-> c.kind,
                                              entity |-> c.entity, doc |-> doc])
                  /\ calls' = [calls EXCEPT ![w] =
                         [c EXCEPT !.pc = "returned", !.saves = c.saves + 1,
                                   !.ret = doc]]
             ELSE /\ UNCHANGED <<store, saved>>
                  /\ c.saves < 2
                  /\ calls' = [calls EXCEPT ![w] =
                         [c EXCEPT !.saves = c.saves + 1, !.failed = TRUE,
                                   !.logs = <<[text |-> "e.info"]>>]]
    /\ UNCHANGED <<ncalls, res, db, env, path, out>>

\* obj.save() and the rest of the call: the engine takes the document, or
\* the save raises TransportError
Save(w) ==
    /\ calls[w].pc = "built"
    /\ LET c == calls[w]
           doc == to_dict(c.obj)
       IN  \E ok \in BOOLEAN :
             IF ok
             THEN /\ store' = Upsert(store, doc)
                  /\ saved' = Append(saved, [n |-> c.n, kind |-> c.kind,
                                              entity |-> c.entity, doc |-> doc])
                  /\ calls' = [calls EXCEPT ![w] =
                         [c EXCEPT !.pc = "returned", !.saves = c.saves + 1,
                                   !.ret = doc]]
             ELSE /\ UNCHANGED <<store, saved>>
                  /\ calls' = [calls EXCEPT ![w] =
                         IF CatchesTransportError(c.kind)
                         THEN [c EXCEPT !.pc = "returned", !.saves = c.saves + 1,
                                        !.failed = TRUE,
                                        !.logs = <<[text |-> "Error indexing",
                                                    kind |-> c.kind,
                                                    title |-> c.obj.fields.title,
                                                    id |-> c.obj.fields.id],
                                                   [text |-> "e.info"]>>,
                                        !.ret = doc]
                         ELSE [c EXCEPT !.pc = "raised", !.saves = c.saves + 1,
                                        !.failed = TRUE,
                                        !.exc = "TransportError"]]
    /\ UNCHANGED <<ncalls, res, db, env, path, out>>

\* every resource has an owner
Owned == Owners \ {NoOwner}

NextIndex == \E w \in Workers : Begin(w, Owned) \/ Save(w)

Spec == InitIndex /\ [][NextIndex]_vars

\* C1: a save that fails with a transport error does not raise to the
\* caller of any of the five indexers; the call returns the document's dict.
C1_SaveFailureNeverRaises ==
    \A w \in Workers :
        (calls[w].pc # "idle" /\ calls[w].failed) =>
            (calls[w].pc = "returned" /\ calls[w].ret = to_dict(calls[w].obj))

\* the saves of (kind, id) that completed, by position in `saved`
SavesOf(kind, id) ==
    {j \in 1..Len(saved) : saved[j].kind = kind /\ saved[j].entity.id = id}

\* C2: after any interleaving of successful indexing calls every index holds
\* at most one document per identifier, its identifier is the entity's id,
\* its content is what the save that completed last for that identifier
\* wrote, and kinds with equal ids do not overwrite each other.
C2_LastWriteWinsPerIdentifier ==
    /\ \A d1 \in store : \A d2 \in store :
          (d1._index = d2._index /\ d1._id = d2._id) => d1 = d2
    /\ \A k1 \in Kinds : \A k2 \in Kinds : k1 # k2 => IndexName(k1) # IndexName(k2)
    /\ \A kind \in Kinds : \A id \in Ids :
          LET js == SavesOf(kind, id)
              here == {d \in store : d._index = IndexName(kind) /\ d._id = id}
          IN  IF js = {} THEN here = {}
              ELSE LET last == CHOOSE j \in js : \A i \in js : i <= j
                   IN  /\ here = {saved[last].doc}
                       /\ saved[last].doc._source.id = id
    /\ \A d \in store : \E kind \in Kinds : d._index = IndexName(kind) /\ d._id \in Ids

\* C2 witness: two calls for one identifier completed in the reverse of the
\* order they began in, with different content
C2_ReorderedReindex ==
    /\ Len(saved) = 2
    /\ saved[1].kind = saved[2].kind
    /\ saved[1].entity.id = saved[2].entity.id
    /\ saved[1].doc # saved[2].doc
    /\ saved[1].n > saved[2].n
    /\ Cardinality(store) = 1

TitledIndices == {IndexName(k) : k \in {"layer", "map", "document", "group"}}

\* C5: in every Layer, Map, Document and Group document that is built or
\* stored, title_sortable is the lower-cased title of the same document.
C5_SortableTitleIsLowerTitle ==
    /\ \A d \in store :
          d._index \in TitledIndices =>
              d._source.title_sortable = Lower(d._source.title)
    /\ \A w \in Workers :
          (calls[w].pc \in {"built", "returned"} /\ calls[w].kind # "profile") =>
              calls[w].obj.fields.title_sortable = Lower(calls[w].obj.fields.title)

\* C5 witness: a stored layer document whose title has an upper-case letter
C5_MixedCaseTitleStored ==
    \E d \in store :
        /\ d._index = IndexName("layer")
        /\ d._source.title # d._source.title_sortable

\* ------------------------------------------------------------ owner fields
\* owners with every combination of an empty and a non-empty name, or none
AnyOwner ==
    Owners \cup {[username |-> "ann", first_name |-> "Ann", last_name |-> ""],
                 [username |-> "bo", first_name |-> "Bo", last_name |-> "Lee"]}

OutOf(fn, r) == IF r.exc = "" THEN Returned(fn, r.val) ELSE Raised(fn, r.exc)

InitOwner ==
    /\ res \in [owner : AnyOwner]
    /\ out = Idle
    /\ store = {}
    /\ calls = [w \in Workers |-> IdleCall]
    /\ saved = <<>>
    /\ ncalls = 0
    /\ db = Unused /\ env = NotCalled /\ path = <<>>

PrepareOwner ==
    /\ out.pc = "idle" /\ ncalls = 0
    /\ out' = OutOf("prepare_owner", prepare_owner(res))
    /\ UNCHANGED <<store, calls, saved, ncalls, res, db, env, path>>

PrepareOwnerFirst ==
    /\ out.pc = "idle" /\ ncalls = 0
    /\ out' = OutOf("prepare_owner_first", prepare_owner_first(res))
    /\ UNCHANGED <<store, calls, saved, ncalls, res, db, env, path>>

PrepareOwnerLast ==
    /\ out.pc = "idle" /\ ncalls = 0
    /\ out' = OutOf("prepare_owner_last", prepare_owner_last(res))
    /\ UNCHANGED <<store, calls, saved, ncalls, res, db, env, path>>

\* an indexer is called on a resource of this owner
BeginOwned ==
    /\ out.pc = "idle"
    /\ Begin(1, {res.owner})

NextOwner ==
    PrepareOwner \/ PrepareOwnerFirst \/ PrepareOwnerLast \/ BeginOwned \/ Save(1)

SpecOwner == InitOwner /\ [][NextOwner]_vars

NameOrNone(name) == IF name # "" THEN Text(name) ELSE NoneV

\* C11: with an owner, prepare_owner returns the username and
\* prepare_owner_first / prepare_owner_last the name, or None for an empty
\* name; with no owner prepare_owner returns None and the other two fail,
\* so create_layer_index fails on an ownerless layer while create_map_index
\* and create_document_index still produce a document.
C11_OwnerFields ==
    /\ Ran("prepare_owner") =>
          out = Returned("prepare_owner",
                         IF res.owner = NoOwner THEN NoneV
                         ELSE Text(res.owner.username))
    /\ Ran("prepare_owner_first") =>
          IF res.owner = NoOwner THEN out.pc = "raised"
          ELSE out = Returned("prepare_owner_first", NameOrNone(res.owner.first_name))
    /\ Ran("prepare_owner_last") =>
          IF res.owner = NoOwner THEN out.pc = "raised"
          ELSE out = Returned("prepare_owner_last", NameOrNone(res.owner.last_name))
    /\ \A w \in Workers :
          LET c == calls[w]
          IN  (c.pc # "idle" /\ c.kind \in {"layer", "map", "document"}) =>
                IF c.entity.owner = NoOwner
                THEN IF c.kind = "layer"
                     THEN c.pc = "raised" /\ c.saves = 0 /\ c.ret = NoneV
                     ELSE /\ c.pc \in {"built", "returned"}
                          /\ c.obj.fields.owner__username = NoneV
                          /\ c.pc = "returned" => c.ret = to_dict(c.obj)
                ELSE /\ c.pc \in {"built", "returned"}
                     /\ c.obj.fields.owner__username = Text(c.entity.owner.username)
                     /\ c.kind = "layer" =>
                          /\ c.obj.fields.owner__first_name =
                                NameOrNone(c.entity.owner.first_name)
                          /\ c.obj.fields.owner__last_name =
                                NameOrNone(c.entity.owner.last_name)

\* C11 witness: create_layer_index failed on an ownerless layer after
\* create_map_index had stored the document of an ownerless map
C11_OwnerlessLayerFailsMapStored ==
    /\ res.owner = NoOwner
    /\ calls[1].pc = "raised" /\ calls[1].kind = "layer"
    /\ \E d \in store :
          d._index = IndexName("map") /\ d._source.owner__username = NoneV

\* ------------------------------------------------------------- failed saves
ResourceKinds == {"layer", "map", "document"}

\* worker w's save fails in this step
SaveFails(w) ==
    /\ calls[w].pc = "built"
    /\ calls'[w] # calls[w]
    /\ calls'[w].failed

\* C12: a call of create_layer_index, create_map_index or
\* create_document_index attempts the save exactly once: a failed save is
\* not retried, leaves the index as it was, and an error naming the title
\* and id is logged before the call returns.
C12_FailedSaveOnceNoRetry ==
    [][\A w \in Workers :
          /\ (calls'[w].pc # "idle" /\ calls'[w].kind \in ResourceKinds) =>
                /\ calls'[w].saves <= 1
                /\ calls'[w].pc = "returned" => calls'[w].saves = 1
                /\ calls'[w].pc = "built" => calls'[w].saves = 0
          /\ (SaveFails(w) /\ calls[w].kind \in ResourceKinds) =>
                /\ store' = store
                /\ saved' = saved
                /\ calls'[w].pc = "returned"
                /\ Len(calls'[w].logs) > 0
                /\ calls'[w].logs[1].title = calls[w].entity.title
                /\ calls'[w].logs[1].id = calls[w].entity.id]_vars

\* C12 witness: a re-indexing call has returned after its only save failed,
\* and the index still holds the older, different document of that id
C12_StaleDocumentKept ==
    \E w \in Workers :
        /\ calls[w].pc = "returned"
        /\ calls[w].kind \in ResourceKinds
        /\ calls[w].failed
        /\ calls[w].saves = 1
        /\ \E d \in store :
              /\ d._index = calls[w].ret._index
              /\ d._id = calls[w].ret._id
              /\ d # calls[w].ret

====
